---- MODULE Spec2Model ----
(***************************************************************************)
(* Model of projexts (src/projexts/src/main.rs): a store of named command  *)
(* shortcuts kept in one JSON file, and the operations that read, change   *)
(* and execute them.                                                       *)
(*                                                                         *)
(* A Rust String is modelled as a sequence of one-character strings, so    *)
(* that JSON escaping, path syntax and token order are all computed.       *)
(***************************************************************************)
EXTENDS Integers, Sequences, FiniteSets, TLC

VARIABLES fileExists, fileData, last, inv, log

vars == <<fileExists, fileData, last, inv, log>>

(***************************************************************************)
(* Bounds of the model.                                                    *)
(***************************************************************************)
MaxShortcuts == 3   \* entries add_shortcut lets the store grow to
MaxSaved == 2       \* entries of a collection handed to save_shortcuts
MaxMore == 1        \* entries behind the first in a store that run and open read
MaxTokens == 2      \* tokens of a command handed to add_shortcut

(***************************************************************************)
(* serde_json::to_string_pretty on Vec<Shortcut> (called at main.rs:82).   *)
(***************************************************************************)
project_name_key == <<"p","r","o","j","e","c","t","_","n","a","m","e">>
run_command_key == <<"r","u","n","_","c","o","m","m","a","n","d">>

Indent(n) == [i \in 1..(2 * n) |-> " "]

EscapeCharNone(c) == <<c>>

EscapeChar(c) ==
    IF c = "\"" THEN <<"\\", "\"">>
    ELSE IF c = "\\" THEN <<"\\", "\\">>
    ELSE IF c = "\n" THEN <<"\\", "n">>
    ELSE <<c>>

RECURSIVE EscapeStr(_)
EscapeStr(s) ==
    IF s = <<>> THEN <<>> ELSE EscapeChar(Head(s)) \o EscapeStr(Tail(s))

JsonString(s) == <<"\"">> \o EscapeStr(s) \o <<"\"">>

\* items: already serialized values, each written one level deeper than depth
\* The value of a one-element set.  A value bound by x \in {e} is computed
\* once, where a LET definition is computed again at each use.
Strict(S) == CHOOSE x \in S : TRUE

\* items: already serialized values, each written one level deeper than depth
RECURSIVE JsonItems(_, _, _)
JsonItems(items, k, depth) ==
    IF k > Len(items) THEN <<>>
    ELSE (IF k = 1 THEN <<"\n">> ELSE <<",", "\n">>)
         \o Indent(depth + 1) \o items[k] \o JsonItems(items, k + 1, depth)

JsonArray(items, depth) ==
    Strict({IF it = <<>> THEN <<"[", "]">>
            ELSE <<"[">> \o JsonItems(it, 1, depth) \o <<"\n">> \o Indent(depth) \o <<"]">>
            : it \in {items}})

JsonShortcut(sc, depth) ==
    <<"{", "\n">> \o Indent(depth + 1)
      \o JsonString(project_name_key) \o <<":", " ">> \o JsonString(sc.project_name)
      \o <<",", "\n">> \o Indent(depth + 1)
      \o JsonString(run_command_key) \o <<":", " ">>
      \o JsonArray([i \in 1..Len(sc.run_command) |-> JsonString(sc.run_command[i])],
                   depth + 1)
      \o <<"\n">> \o Indent(depth) \o <<"}">>

to_string_pretty(shortcuts) ==
    Strict({JsonArray([i \in 1..Len(v) |-> JsonShortcut(v[i], 1)], 0) : v \in {shortcuts}})

(***************************************************************************)
(* serde_json::from_str::<Vec<Shortcut>> (called at main.rs:64): a         *)
(* recursive-descent reading of the text.  A result is                     *)
(* [ok, val, pos]: pos is the index after the value read.  The derived     *)
(* Deserialize of Shortcut reads an object with the two fields in either   *)
(* order; a field given twice or missing is an error.                      *)
(***************************************************************************)
Fail == [ok |-> FALSE, val |-> <<>>, pos |-> 0]
Done(v, p) == [ok |-> TRUE, val |-> v, pos |-> p]
None == [some |-> FALSE, val |-> <<>>]
Some(v) == [some |-> TRUE, val |-> v]

RECURSIVE SkipWs(_, _)
SkipWs(s, i) ==
    IF i <= Len(s) /\ s[i] \in {" ", "\n"} THEN SkipWs(s, i + 1) ELSE i

At(s, i, c) == i <= Len(s) /\ s[i] = c

RECURSIVE ParseStrBody(_, _, _)
ParseStrBody(s, i, acc) ==
    IF i > Len(s) THEN Fail
    ELSE IF s[i] = "\"" THEN Done(acc, i + 1)
    ELSE IF s[i] = "\\" THEN
        IF i + 1 > Len(s) THEN Fail
        ELSE IF s[i + 1] \in {"\"", "\\", "/"}
             THEN ParseStrBody(s, i + 2, Append(acc, s[i + 1]))
        ELSE IF s[i + 1] = "n" THEN ParseStrBody(s, i + 2, Append(acc, "\n"))
        ELSE Fail
    ELSE IF s[i] = "\n" THEN Fail   \* raw control character inside a string
    ELSE ParseStrBody(s, i + 1, Append(acc, s[i]))

ParseString(s, i) == IF At(s, i, "\"") THEN ParseStrBody(s, i + 1, <<>>) ELSE Fail

RECURSIVE ParseValue(_, _, _)
RECURSIVE ParseElems(_, _, _, _)
RECURSIVE ParseFields(_, _, _, _)

\* after an element and the space behind it: ',' and the next element, or ']'
ElemsEnd(kind, s, acc, j) ==
    IF At(s, j, ",")
    THEN Strict({ParseElems(kind, s, n, acc) : n \in {SkipWs(s, j + 1)}})
    ELSE IF At(s, j, "]") THEN Done(acc, j + 1)
    ELSE Fail

\* '[' already read; i is at an element, acc holds the elements before it
ParseElems(kind, s, i, acc) ==
    Strict({IF ~r.ok THEN Fail
            ELSE Strict({ElemsEnd(kind, s, a, j) :
                            a \in {Append(acc, r.val)}, j \in {SkipWs(s, r.pos)}})
            : r \in {ParseValue(kind, s, i)}})

ParseArray(kind, s, i) ==
    IF ~At(s, i, "[") THEN Fail
    ELSE Strict({IF At(s, j, "]") THEN Done(<<>>, j + 1)
                 ELSE ParseElems(kind, s, j, <<>>)
                 : j \in {SkipWs(s, i + 1)}})

\* the value of the field key, at v
FieldValue(s, name, cmd, key, v) ==
    IF key = project_name_key /\ ~name.some THEN ParseString(s, v)
    ELSE IF key = run_command_key /\ ~cmd.some THEN ParseArray("string", s, v)
    ELSE Fail

\* after a field and the space behind it: ',' and the next field, or '}'
FieldsEnd(s, name, cmd, e) ==
    IF At(s, e, ",")
    THEN Strict({ParseFields(s, n, name, cmd) : n \in {SkipWs(s, e + 1)}})
    ELSE IF At(s, e, "}") THEN
        IF name.some /\ cmd.some
        THEN Done([project_name |-> name.val, run_command |-> cmd.val], e + 1)
        ELSE Fail
    ELSE Fail

FieldsAfterKey(s, name, cmd, key, c) ==
    IF ~At(s, c, ":") THEN Fail
    ELSE Strict({Strict({IF ~r.ok THEN Fail
                         ELSE Strict({FieldsEnd(s, name2, cmd2, e) :
                                  name2 \in {IF key = project_name_key
                                             THEN Some(r.val) ELSE name},
                                  cmd2 \in {IF key = run_command_key
                                            THEN Some(r.val) ELSE cmd},
                                  e \in {SkipWs(s, r.pos)}})
                         : r \in {FieldValue(s, name, cmd, key, v)}})
                 : v \in {SkipWs(s, c + 1)}})

\* '{' already read; i is at a key. name and cmd are the fields read so far.
ParseFields(s, i, name, cmd) ==
    Strict({IF ~k.ok THEN Fail
            ELSE Strict({FieldsAfterKey(s, name, cmd, k.val, c) :
                            c \in {SkipWs(s, k.pos)}})
            : k \in {ParseString(s, i)}})

ParseShortcut(s, i) ==
    IF ~At(s, i, "{") THEN Fail
    ELSE Strict({ParseFields(s, j, None, None) : j \in {SkipWs(s, i + 1)}})

ParseValue(kind, s, i) ==
    IF kind = "string" THEN ParseString(s, i) ELSE ParseShortcut(s, i)

Document(s) ==
    Strict({IF r.ok /\ SkipWs(s, r.pos) = Len(s) + 1 THEN r ELSE Fail
            : r \in {Strict({ParseArray("shortcut", s, i) : i \in {SkipWs(s, 1)}})}})

from_str(text) == Strict({Document(s) : s \in {text}})

(***************************************************************************)
(* The filesystem the commands are resolved against, and std::path::Path   *)
(* on Unix path syntax.  Paths contain no ".." component and no repeated   *)
(* or trailing separator.                                                  *)
(***************************************************************************)
root == <<"/">>
dirD == <<"/", "d">>
fileF == <<"/", "d", "/", "f">>
absX == <<"/", "x">>
dot == <<".">>
relF == <<"f">>
bare == <<"n">>
empty == <<>>

Dirs == {root, dirD}
Files == {fileF}
Tokens == {empty, dot, relF, bare, root, fileF, absX}
Names == {<<"p">>, <<"\"", "\\">>}
TargetOs == {"linux", "macos", "freebsd"}
SpawnOutcomes == {"exited", "spawn_failed", "wait_failed"}

is_absolute(p) == p # <<>> /\ p[1] = "/"

\* the absolute path a token denotes when the process runs in cwd
Resolve(p, cwd) ==
    IF is_absolute(p) THEN p
    ELSE IF p = dot THEN cwd
    ELSE IF cwd = root THEN root \o p
    ELSE cwd \o <<"/">> \o p

Exists(p, cwd) == p # <<>> /\ Resolve(p, cwd) \in (Dirs \cup Files)
is_dir(p, cwd) == p # <<>> /\ Resolve(p, cwd) \in Dirs
is_file(p, cwd) == p # <<>> /\ Resolve(p, cwd) \in Files

\* fs::canonicalize: Ok(absolute path) for an existing entry, Err otherwise
canonicalize(p, cwd) == IF Exists(p, cwd) THEN Some(Resolve(p, cwd)) ELSE None

RECURSIVE LastSlash(_, _)
LastSlash(p, i) == IF i = 0 THEN 0 ELSE IF p[i] = "/" THEN i ELSE LastSlash(p, i - 1)

\* Path::parent: None for "" and for the root, else the path without its
\* last component ("" for a single relative component)
parent(p) ==
    IF p = <<>> \/ p = root THEN None
    ELSE LET k == LastSlash(p, Len(p)) IN
         IF k = 0 THEN Some(<<>>)
         ELSE IF k = 1 THEN Some(root)
         ELSE Some(SubSeq(p, 1, k - 1))

(***************************************************************************)
(* The configuration file (main.rs:20-22) and its load and save.           *)
(***************************************************************************)
\* load_shortcuts applied to the file (e, d): the file afterwards and the
\* outcome of the read
load_shortcuts(e, d) ==
    LET data == IF e THEN d ELSE <<"[", "]">>
    IN Strict({[exists |-> TRUE, data |-> data, created |-> ~e,
                ok |-> r.ok, val |-> r.val] : r \in {from_str(data)}})

\* the collection the store holds now (empty when the file is absent)
Stored == IF fileExists THEN from_str(fileData).val ELSE <<>>

Obs == [op |-> "init", name |-> <<>>, command |-> None, extra_args |-> <<>>,
        cwd |-> <<>>, os |-> "", result |-> "Ok", shortcuts |-> <<>>,
        writes |-> 0, created |-> FALSE, spawned |-> <<>>,
        message |-> <<>>, chdir |-> None, steps |-> <<>>]

\* Two invocations of the tool that run at the same time, each its own
\* process: where each is in its handler and what it holds in memory, and
\* the order in which their reads and writes of the file took place.
Invocations == {1, 2}

Idle == [pc |-> "idle", op |-> "", name |-> <<>>, command |-> <<>>,
         loaded |-> <<>>, shortcuts |-> <<>>, result |-> ""]

NoInvocations ==
    /\ inv = [i \in Invocations |-> Idle]
    /\ log = <<>>

\* the file and the observation a handler leaves
Outcome(e, d, obs) ==
    /\ fileExists' = e
    /\ fileData' = d
    /\ last' = obs
    /\ UNCHANGED <<inv, log>>

\* a handler whose load_shortcuts()? returned the error
LoadFailed(l, obs) ==
    Outcome(l.exists, l.data, [obs EXCEPT !.result = "InvalidData", !.created = l.created])

\* save_shortcuts(&shortcuts) as the last effect of a handler that loaded l
Saved(l, shortcuts, obs) ==
    Outcome(TRUE, to_string_pretty(shortcuts),
            [obs EXCEPT !.shortcuts = l.val, !.created = l.created, !.writes = 1])

\* a handler that loaded l and returns without writing
NotSaved(l, obs) ==
    Outcome(l.exists, l.data, [obs EXCEPT !.shortcuts = l.val, !.created = l.created])

(***************************************************************************)
(* add_shortcut (main.rs:102-131)                                          *)
(***************************************************************************)
is_empty_never(command) == FALSE

is_empty(command) == command = <<>>

absolute_command_dropping(command, cwd) ==
    LET kept == SelectSeq(command, LAMBDA cmd : is_absolute(cmd) \/ Exists(cmd, cwd))
    IN [i \in 1..Len(kept) |->
          IF is_absolute(kept[i]) THEN kept[i] ELSE canonicalize(kept[i], cwd).val]

absolute_command(command, cwd) ==
    [i \in 1..Len(command) |->
        LET cmd == command[i]
            abs_path == canonicalize(cmd, cwd)
        IN IF is_absolute(cmd) THEN cmd
           ELSE IF abs_path.some THEN abs_path.val
           ELSE cmd]

RECURSIVE retain_first_only(_, _)
retain_first_only(shortcuts, name) ==
    IF shortcuts = <<>> THEN <<>>
    ELSE IF Head(shortcuts).project_name = name THEN Tail(shortcuts)
    ELSE <<Head(shortcuts)>> \o retain_first_only(Tail(shortcuts), name)

\* Vec::retain(|shortcut| shortcut.project_name != name)
RECURSIVE retain(_, _)
retain(shortcuts, name) ==
    IF shortcuts = <<>> THEN <<>>
    ELSE IF Head(shortcuts).project_name = name THEN retain(Tail(shortcuts), name)
    ELSE <<Head(shortcuts)>> \o retain(Tail(shortcuts), name)

push_replacing(shortcuts, sc) == Append(retain(shortcuts, sc.project_name), sc)

push(shortcuts, sc) == Append(shortcuts, sc)

add_shortcut(name, command, cwd) ==
    LET obs == [Obs EXCEPT !.op = "add", !.name = name, !.command = Some(command),
                           !.cwd = cwd]
    IN IF is_empty(command)
       THEN Outcome(fileExists, fileData, [obs EXCEPT !.result = "InvalidInput"])
       ELSE \E l \in {load_shortcuts(fileExists, fileData)} :
            IF ~l.ok THEN LoadFailed(l, obs)
            ELSE /\ Len(l.val) < MaxShortcuts
                 /\ Saved(l, push(l.val, [project_name |-> name,
                                          run_command |-> absolute_command(command, cwd)]),
                          obs)

(***************************************************************************)
(* remove_shortcut (main.rs:145-159)                                       *)
(***************************************************************************)
remove_shortcut(name) ==
    LET obs == [Obs EXCEPT !.op = "remove", !.name = name]
    IN \E l \in {load_shortcuts(fileExists, fileData)} :
       IF ~l.ok THEN LoadFailed(l, obs)
       ELSE LET shortcuts == retain(l.val, name) IN
            IF Len(shortcuts) = Len(l.val) THEN NotSaved(l, obs)
            ELSE Saved(l, shortcuts, obs)

(***************************************************************************)
(* list_shortcuts (main.rs:170-181)                                        *)
(***************************************************************************)
list_shortcuts ==
    LET obs == [Obs EXCEPT !.op = "list"]
    IN \E l \in {load_shortcuts(fileExists, fileData)} :
       IF ~l.ok THEN LoadFailed(l, obs) ELSE NotSaved(l, obs)

(***************************************************************************)
(* iter().find(|s| s.project_name == name): index of the first match, 0    *)
(* when there is none.                                                     *)
(***************************************************************************)
RECURSIVE find_last_from(_, _, _)
find_last_from(shortcuts, name, i) ==
    IF i = 0 THEN 0
    ELSE IF shortcuts[i].project_name = name THEN i
    ELSE find_last_from(shortcuts, name, i - 1)

find_last(shortcuts, name) == find_last_from(shortcuts, name, Len(shortcuts))

RECURSIVE find_from(_, _, _)
find_from(shortcuts, name, i) ==
    IF i > Len(shortcuts) THEN 0
    ELSE IF shortcuts[i].project_name = name THEN i
    ELSE find_from(shortcuts, name, i + 1)

find(shortcuts, name) == find_from(shortcuts, name, 1)

(***************************************************************************)
(* update_shortcut (main.rs:306-318)                                       *)
(***************************************************************************)
assign_or_clear(old_command, new_command) ==
    IF new_command.some THEN new_command.val ELSE <<>>

\* if let Some(new_command) = new_command { shortcut.run_command = new_command; }
assign(old_command, new_command) ==
    IF new_command.some THEN new_command.val ELSE old_command

update_shortcut(name, new_command) ==
    LET obs == [Obs EXCEPT !.op = "update", !.name = name, !.command = new_command]
    IN \E l \in {load_shortcuts(fileExists, fileData)} :
       IF ~l.ok THEN LoadFailed(l, obs)
       ELSE LET k == find(l.val, name) IN
            IF k # 0
            THEN Saved(l, [l.val EXCEPT ![k].run_command = assign(@, new_command)], obs)
            ELSE NotSaved(l, obs)

(***************************************************************************)
(* reset_shortcuts (main.rs:38-42): fs::remove_file fails when the file    *)
(* is not there.                                                           *)
(***************************************************************************)
remove_file_truncating(e, d) == [exists |-> e, data |-> <<>>, ok |-> e]

remove_file(e, d) == [exists |-> FALSE, data |-> <<>>, ok |-> e]

reset_shortcuts ==
    LET r == remove_file(fileExists, fileData) IN
    Outcome(r.exists, r.data,
            [Obs EXCEPT !.op = "reset", !.result = IF r.ok THEN "Ok" ELSE "NotFound"])

(***************************************************************************)
(* load_shortcuts and save_shortcuts called on their own, as the tests at  *)
(* main.rs:611-636 do.                                                     *)
(***************************************************************************)
call_load_shortcuts ==
    LET obs == [Obs EXCEPT !.op = "load"]
    IN \E l \in {load_shortcuts(fileExists, fileData)} :
       IF ~l.ok THEN LoadFailed(l, obs) ELSE NotSaved(l, obs)

call_save_shortcuts(shortcuts) ==
    Outcome(TRUE, to_string_pretty(shortcuts),
            [Obs EXCEPT !.op = "save", !.shortcuts = shortcuts, !.writes = 1])

(***************************************************************************)
(* Command::new(program).args(args).spawn()?.wait()? (main.rs:237, 275):   *)
(* the process requested, whether it started and whether it was waited     *)
(* for, and what the two ? operators return.                               *)
(***************************************************************************)
spawn_wait(program, args, outcome) ==
    [proc |-> [program |-> program, args |-> args,
               started |-> outcome # "spawn_failed",
               exited |-> outcome = "exited"],
     result |-> IF outcome = "exited" THEN "Ok"
                ELSE IF outcome = "spawn_failed" THEN "SpawnError"
                ELSE "WaitError"]

(***************************************************************************)
(* open_project_folder (main.rs:203-245)                                   *)
(***************************************************************************)
explorer == <<"e", "x", "p", "l", "o", "r", "e", "r">>
open == <<"o", "p", "e", "n">>
xdg_open == <<"x", "d", "g", "-", "o", "p", "e", "n">>

\* the cfg!(target_os = ...) chain at main.rs:224-235
open_command(os) ==
    IF os = "windows" THEN Some(explorer)
    ELSE IF os = "macos" THEN Some(open)
    ELSE IF os = "linux" THEN Some(xdg_open)
    ELSE None

\* let dir = if path.is_dir() { path } else if let Some(parent) = path.parent()
\* { parent } else { return Err(NotFound) }
dir_of(first_command, cwd) ==
    IF is_dir(first_command, cwd) THEN Some(first_command)
    ELSE parent(first_command)

open_project_folder(name, cwd, os, outcome) ==
    LET obs == [Obs EXCEPT !.op = "open", !.name = name, !.cwd = cwd, !.os = os]
    IN \E l \in {load_shortcuts(fileExists, fileData)} :
       IF ~l.ok THEN LoadFailed(l, obs)
       ELSE LET k == find(l.val, name) IN
            IF k = 0 THEN NotSaved(l, obs)
            ELSE IF l.val[k].run_command = <<>> THEN NotSaved(l, obs)
            ELSE LET dir == dir_of(l.val[k].run_command[1], cwd)
                     opener == open_command(os)
                 IN IF ~dir.some THEN NotSaved(l, [obs EXCEPT !.result = "NotFound"])
                    ELSE IF ~opener.some
                         THEN NotSaved(l, [obs EXCEPT !.result = "Unsupported"])
                    ELSE LET r == spawn_wait(opener.val, <<dir.val>>, outcome) IN
                         NotSaved(l, [obs EXCEPT !.result = r.result,
                                                 !.spawned = <<r.proc>>])

(***************************************************************************)
(* run_shortcut (main.rs:266-283)                                          *)
(***************************************************************************)
combined_args_extra_first(args, extra_args) == extra_args \o args

\* args.iter().cloned().chain(extra_args).collect()
combined_args(args, extra_args) == args \o extra_args

run_shortcut(name, extra_args, outcome) ==
    LET obs == [Obs EXCEPT !.op = "run", !.name = name, !.extra_args = extra_args]
    IN \E l \in {load_shortcuts(fileExists, fileData)} :
       IF ~l.ok THEN LoadFailed(l, obs)
       ELSE LET k == find(l.val, name) IN
            IF k = 0 THEN NotSaved(l, obs)
            ELSE IF l.val[k].run_command = <<>> THEN NotSaved(l, obs)
            ELSE LET command == Head(l.val[k].run_command)
                     args == Tail(l.val[k].run_command)
                     r == spawn_wait(command, combined_args(args, extra_args), outcome)
                 IN NotSaved(l, [obs EXCEPT !.result = r.result,
                                            !.spawned = <<r.proc>>])

(***************************************************************************)
(* git_push (main.rs:391-432).  Command::status() runs a command and       *)
(* waits for it: its outcome is the exit status ("exit0", "exit1") or      *)
(* "failed" when the command could not be run, which ? returns.  A step is *)
(* [args, dir, status]: the arguments given to git, the working directory  *)
(* of the process at that time, and the outcome.                           *)
(***************************************************************************)
StatusOutcomes == {"exit0", "exit1", "failed"}

arg_add == <<"a", "d", "d">>
arg_commit == <<"c", "o", "m", "m", "i", "t">>
arg_m == <<"-", "m">>
arg_push == <<"p", "u", "s", "h">>

\* the three git invocations, in the order of main.rs:412-422
git_commands(commit_message) ==
    <<<<arg_add, dot>>, <<arg_commit, arg_m, commit_message>>, <<arg_push>>>>

RECURSIVE status_each_checked(_, _, _)
status_each_checked(commands, outcomes, dir) ==
    IF commands = <<>> THEN <<>>
    ELSE <<[args |-> Head(commands), dir |-> dir, status |-> Head(outcomes)]>>
         \o (IF Head(outcomes) # "exit0" THEN <<>>
             ELSE status_each_checked(Tail(commands), Tail(outcomes), dir))

\* Command::new("git")...status()?; one after the other: a status that is
\* an Err returns at once, an exit status is dropped
RECURSIVE status_each(_, _, _)
status_each(commands, outcomes, dir) ==
    IF commands = <<>> THEN <<>>
    ELSE <<[args |-> Head(commands), dir |-> dir, status |-> Head(outcomes)]>>
         \o (IF Head(outcomes) = "failed" THEN <<>>
             ELSE status_each(Tail(commands), Tail(outcomes), dir))

\* std::env::set_current_dir(dir): succeeds on an existing directory
set_current_dir(dir, cwd) == is_dir(dir, cwd)

git_push(name, commit_message, cwd, outcomes) ==
    LET obs == [Obs EXCEPT !.op = "git_push", !.name = name, !.cwd = cwd,
                           !.message = commit_message]
    IN \E l \in {load_shortcuts(fileExists, fileData)} :
       IF ~l.ok THEN LoadFailed(l, obs)
       ELSE LET k == find(l.val, name) IN
            IF k = 0 THEN NotSaved(l, obs)
            ELSE IF l.val[k].run_command = <<>> THEN NotSaved(l, obs)
            ELSE LET dir == dir_of(l.val[k].run_command[1], cwd) IN
                 IF ~dir.some THEN NotSaved(l, [obs EXCEPT !.result = "NotFound"])
                 ELSE IF ~set_current_dir(dir.val, cwd)
                 THEN NotSaved(l, [obs EXCEPT !.result = "NotFound", !.chdir = dir])
                 ELSE \E steps \in {status_each(git_commands(commit_message), outcomes,
                                                Resolve(dir.val, cwd))} :
                      NotSaved(l, [obs EXCEPT
                          !.chdir = dir,
                          !.steps = steps,
                          !.result = IF steps[Len(steps)].status = "failed"
                                     THEN "SpawnError" ELSE "Ok"])

(***************************************************************************)
(* add_shortcut, remove_shortcut and update_shortcut taken in the two      *)
(* steps in which they touch the file: load_shortcuts() (main.rs:125, 146, *)
(* 307) with the change then made to the Vec in memory, and                *)
(* save_shortcuts(&shortcuts) (main.rs:130, 156, 312).  Nothing is held    *)
(* between the two steps, so steps of another invocation may fall between  *)
(* them.  Each read and each fs::write of the file is taken as one step.   *)
(***************************************************************************)
fs_write_create_new(e, d, contents) ==
    IF e THEN [exists |-> e, data |-> d] ELSE [exists |-> TRUE, data |-> contents]

\* fs::write(config_file_path(), data): the file holds data, whatever it
\* held before
fs_write(e, d, contents) == [exists |-> TRUE, data |-> contents]

\* invocation i leaves its handler with the result
returns(invs, i, result) == [invs EXCEPT ![i].pc = "done", ![i].result = result]

\* invocation i holds the changed Vec and goes on to save_shortcuts
holds(invs, i, shortcuts) == [invs EXCEPT ![i].pc = "save", ![i].shortcuts = shortcuts]

\* invocation i enters the handler of op and runs it up to its save
loads(i, op, name, command, cwd) ==
    /\ inv[i].pc = "idle"
    /\ last' = last
    /\ IF op = "add" /\ is_empty(command)
       THEN /\ inv' = returns([inv EXCEPT ![i].op = op, ![i].name = name,
                                              ![i].command = command], i, "InvalidInput")
            /\ UNCHANGED <<fileExists, fileData, log>>
       ELSE \E l \in {load_shortcuts(fileExists, fileData)} :
            /\ fileExists' = l.exists
            /\ fileData' = l.data
            /\ log' = Append(log, [step |-> "load", by |-> i])
            /\ \E entered \in {[inv EXCEPT ![i].op = op, ![i].name = name,
                                           ![i].command = command, ![i].loaded = l.val]} :
               inv' = IF ~l.ok THEN returns(entered, i, "InvalidData")
                      ELSE CASE op = "add" ->
                                  holds(entered, i,
                                        push(l.val, [project_name |-> name,
                                                     run_command |->
                                                         absolute_command(command, cwd)]))
                             [] op = "remove" ->
                                  IF Len(retain(l.val, name)) = Len(l.val)
                                  THEN returns(entered, i, "Ok")
                                  ELSE holds(entered, i, retain(l.val, name))
                             [] op = "update" ->
                                  IF find(l.val, name) # 0
                                  THEN holds(entered, i,
                                             [l.val EXCEPT ![find(l.val, name)].run_command =
                                                               assign(@, Some(command))])
                                  ELSE returns(entered, i, "Ok")

\* invocation i calls save_shortcuts with the Vec it holds and returns
saves(i) ==
    /\ inv[i].pc = "save"
    /\ last' = last
    /\ \E w \in {fs_write(fileExists, fileData, to_string_pretty(inv[i].shortcuts))} :
          /\ fileExists' = w.exists
          /\ fileData' = w.data
    /\ log' = Append(log, [step |-> "save", by |-> i])
    /\ inv' = returns(inv, i, "Ok")

(***************************************************************************)
(* The store operations as main dispatches them (main.rs:536-593).         *)
(***************************************************************************)
AddCommands == {<<>>, <<relF, bare>>}
AddCwds == {dirD}
UpdateCommands == {<<>>, <<bare, absX>>}

Init ==
    /\ fileExists = FALSE
    /\ fileData = <<>>
    /\ last = Obs
    /\ NoInvocations

Add == \E name \in Names, command \in AddCommands, cwd \in AddCwds :
           add_shortcut(name, command, cwd)
Remove == \E name \in Names : remove_shortcut(name)
List == list_shortcuts
Update == \E name \in Names, command \in UpdateCommands :
              update_shortcut(name, Some(command))
Reset == reset_shortcuts

Next == Add \/ Remove \/ List \/ Update \/ Reset

Spec == Init /\ [][Next]_vars

(***************************************************************************)
(* The functions called directly, as the tests at main.rs:611-704 call     *)
(* them: save_shortcuts with any collection, load_shortcuts, and           *)
(* update_shortcut with or without a new command.                          *)
(***************************************************************************)
SeqsUpTo(S, n) == UNION {[1..k -> S] : k \in 0..n}

ApiShortcuts == [project_name : Names, run_command : {<<>>, <<bare, relF>>}]
ApiCollections == SeqsUpTo(ApiShortcuts, MaxSaved)

Save == \E shortcuts \in ApiCollections : call_save_shortcuts(shortcuts)
Load == call_load_shortcuts
UpdateOpt == \E name \in Names, new_command \in {None, Some(<<>>)} :
                 update_shortcut(name, new_command)

NextApi == Save \/ Load \/ UpdateOpt \/ Reset

SpecApi == Init /\ [][NextApi]_vars

(***************************************************************************)
(* One invocation of run or open on a store that earlier invocations       *)
(* left: main handles one subcommand per process (main.rs:533-594).        *)
(***************************************************************************)
ExecCommands == {<<>>, <<empty>>, <<root>>, <<bare>>, <<dot>>, <<absX, bare>>,
                 <<relF, bare, dot>>, <<fileF>>}
ExecShortcuts == [project_name : Names, run_command : ExecCommands]
MoreShortcuts == [project_name : Names, run_command : {<<bare>>, <<relF, dot>>}]
ExecCollections ==
    {<<>>} \cup {<<sc>> \o rest : sc \in ExecShortcuts,
                                  rest \in SeqsUpTo(MoreShortcuts, MaxMore)}
ExtraArgs == {<<>>, <<dot, bare>>}

InitExec ==
    /\ fileExists = TRUE
    /\ fileData \in {to_string_pretty(c) : c \in ExecCollections}
    /\ last = Obs
    /\ NoInvocations

Run == /\ last.op = "init"
       /\ \E name \in Names, extra_args \in ExtraArgs, outcome \in SpawnOutcomes :
              run_shortcut(name, extra_args, outcome)
Open == /\ last.op = "init"
        /\ \E name \in Names, cwd \in Dirs, os \in TargetOs, outcome \in SpawnOutcomes :
               open_project_folder(name, cwd, os, outcome)

NextExec == Run \/ Open

SpecExec == InitExec /\ [][NextExec]_vars

(***************************************************************************)
(* One invocation of update, run or open on such a store: the three        *)
(* handlers that look a shortcut up by name and may not find it.           *)
(***************************************************************************)
UpdateOne == /\ last.op = "init"
             /\ \E name \in Names, command \in UpdateCommands :
                    update_shortcut(name, Some(command))

NextLookup == Run \/ Open \/ UpdateOne

SpecLookup == InitExec /\ [][NextLookup]_vars

(***************************************************************************)
(* One invocation of git-push on such a store, with every combination of   *)
(* outcomes of the three git commands.                                     *)
(***************************************************************************)
CommitMessages == {<<"m">>}

GitPush == /\ last.op = "init"
           /\ \E name \in Names, cwd \in Dirs, commit_message \in CommitMessages,
                 outcomes \in [1..3 -> StatusOutcomes] :
                  git_push(name, commit_message, cwd, outcomes)

NextGit == GitPush

SpecGit == InitExec /\ [][NextGit]_vars

(***************************************************************************)
(* Two invocations of add, remove or update at the same time, on a store   *)
(* that is absent or holds one or two shortcuts: their loads and saves in  *)
(* every order.                                                            *)
(***************************************************************************)
RaceCollections ==
    {<<>>, <<[project_name |-> <<"p">>, run_command |-> <<absX>>]>>,
     <<[project_name |-> <<"p">>, run_command |-> <<absX>>],
       [project_name |-> <<"\"", "\\">>, run_command |-> <<bare>>]>>}
RaceCommands == {<<>>, <<absX, bare>>}

InitRace ==
    /\ \/ fileExists = FALSE /\ fileData = <<>>
       \/ fileExists = TRUE /\ fileData \in {to_string_pretty(c) : c \in RaceCollections}
    /\ last = Obs
    /\ NoInvocations

InvocationLoads ==
    \E i \in Invocations, op \in {"add", "remove", "update"}, name \in Names,
       command \in RaceCommands :
        /\ op = "remove" => command = <<>>
        /\ loads(i, op, name, command, dirD)
InvocationSaves == \E i \in Invocations : saves(i)

NextRace == InvocationLoads \/ InvocationSaves

SpecRace == InitRace /\ [][NextRace]_vars

(***************************************************************************)
(* One add_shortcut of any command of up to MaxTokens tokens on a fresh    *)
(* store, from either working directory.                                   *)
(***************************************************************************)
TokenCommands == SeqsUpTo(Tokens, MaxTokens)

AddAny == /\ last.op = "init"
          /\ \E name \in Names, command \in TokenCommands, cwd \in Dirs :
                 add_shortcut(name, command, cwd)

NextNorm == AddAny

SpecNorm == Init /\ [][NextNorm]_vars

(***************************************************************************)
(* Properties.                                                             *)
(***************************************************************************)
\* indices of the entries of shortcuts named name
Matches(shortcuts, name) ==
    {i \in 1..Len(shortcuts) : shortcuts[i].project_name = name}

\* the least element of a non-empty set of indices
Least(S) == CHOOSE i \in S : \A j \in S : i <= j

\* C1: for every collection C (duplicate names and empty commands included),
\* once save_shortcuts(C) has written the store, load_shortcuts() succeeds and
\* returns exactly C, same entries in the same order.
C1_SaveLoadRoundTrip ==
    last.op = "save" =>
        \E l \in {load_shortcuts(fileExists, fileData)} :
            l.ok /\ l.val = last.shortcuts

C1_Witness ==
    /\ last.op = "save"
    /\ Len(last.shortcuts) = 2
    /\ last.shortcuts[1].project_name = last.shortcuts[2].project_name
    /\ "\"" \in {last.shortcuts[1].project_name[i] :
                    i \in 1..Len(last.shortcuts[1].project_name)}
    /\ last.shortcuts[1].run_command = <<>>
    /\ last.shortcuts[2].run_command # <<>>
    /\ load_shortcuts(fileExists, fileData).val = last.shortcuts

\* C2: remove_shortcut(name) leaves exactly the entries named otherwise, in
\* their order: every match is removed, no entry named name remains, the
\* length drops by the number of matches, and with no match the collection is
\* unchanged, nothing is saved, and the result is still Ok.
C2_RemoveEveryMatch ==
    [][last'.op = "remove" =>
         \A pre \in {Stored}, post \in {Stored'}, name \in {last'.name} :
            /\ last'.result = "Ok"
            /\ post = SelectSeq(pre, LAMBDA sc : sc.project_name # name)
            /\ Matches(post, name) = {}
            /\ Len(post) = Len(pre) - Cardinality(Matches(pre, name))
            /\ Matches(pre, name) = {} => (post = pre /\ last'.writes = 0)]_vars

C2_Witness ==
    /\ last.op = "remove"
    /\ last.result = "Ok"
    /\ Cardinality(Matches(last.shortcuts, last.name)) = 2
    /\ Len(last.shortcuts) = 3
    /\ Len(Stored) = 1
    /\ last.writes = 1

\* C3: add_shortcut(name, []) fails with InvalidInput for every name and
\* every store, and leaves the store file as it was: nothing created, nothing
\* written, no entry appended.
C3_AddEmptyRejected ==
    [][(last'.op = "add" /\ last'.command = Some(<<>>)) =>
         /\ last'.result = "InvalidInput"
         /\ last'.writes = 0
         /\ ~last'.created
         /\ fileExists' = fileExists
         /\ fileData' = fileData]_vars

C3_Witness ==
    /\ last.op = "add"
    /\ last.command = Some(<<>>)
    /\ last.result = "InvalidInput"
    /\ Len(Stored) >= 1

C5_UpdateFirstOnly ==
    [][(last'.op = "update" /\ last'.command.some) =>
         \A pre \in {Stored}, post \in {Stored'} :
            Matches(pre, last'.name) # {} =>
            \A k \in {Least(Matches(pre, last'.name))} :
            /\ last'.result = "Ok"
            /\ Len(post) = Len(pre)
            /\ \A i \in 1..Len(pre) :
                  /\ post[i].project_name = pre[i].project_name
                  /\ post[i].run_command =
                        IF i = k THEN last'.command.val ELSE pre[i].run_command]_vars

C5_Witness ==
    /\ last.op = "update"
    /\ last.command.some
    /\ Cardinality(Matches(last.shortcuts, last.name)) >= 2
    /\ LET k == Least(Matches(last.shortcuts, last.name)) IN
          /\ last.shortcuts[k].run_command # last.command.val
          /\ Stored[k].run_command = last.command.val
          /\ \E j \in Matches(Stored, last.name) :
                j > k /\ Stored[j].run_command # last.command.val

\* C6: update_shortcut(name, None) with a match leaves the matched command
\* and the whole collection unchanged, still writes the collection to the
\* store, and returns Ok.
C6_UpdateNoneKeeps ==
    [][(last'.op = "update" /\ ~last'.command.some) =>
         \A pre \in {Stored} :
            Matches(pre, last'.name) # {} =>
            /\ last'.result = "Ok"
            /\ last'.writes = 1
            /\ Stored' = pre
            /\ fileData' = to_string_pretty(pre)]_vars

C6_Witness ==
    /\ last.op = "update"
    /\ ~last.command.some
    /\ last.writes = 1
    /\ Matches(Stored, last.name) # {}
    /\ Stored[Least(Matches(Stored, last.name))].run_command # <<>>

\* C7: after any sequence of operations, once reset_shortcuts has run the
\* store file is absent, and load_shortcuts on it creates the file holding an
\* empty collection and returns that empty collection without error.
C7_ResetThenLoadEmpty ==
    last.op = "reset" =>
        /\ ~fileExists
        /\ \E l \in {load_shortcuts(fileExists, fileData)} :
              /\ l.ok
              /\ l.val = <<>>
              /\ l.created
              /\ l.exists
              /\ from_str(l.data) = Done(<<>>, Len(l.data) + 1)

C7_Witness ==
    /\ last.op = "reset"
    /\ last.result = "Ok"
    /\ ~fileExists
    /\ load_shortcuts(fileExists, fileData).val = <<>>

\* C8: run_shortcut(name, extra_args) on a store with an entry named name
\* whose command is not empty takes the first such entry, requests exactly
\* one process, whose program is the first stored token and whose arguments
\* are the remaining stored tokens followed by extra_args, each in order;
\* the process is started unless the spawn itself fails, and run returns Ok
\* only after the process has exited.
C8_RunArguments ==
    last.op = "run" =>
        \A stored \in {Stored} :
            Matches(stored, last.name) # {} =>
            \A cmd \in {stored[Least(Matches(stored, last.name))].run_command} :
                cmd # <<>> =>
                /\ Len(last.spawned) = 1
                /\ last.spawned[1].program = cmd[1]
                /\ Len(last.spawned[1].args) = Len(cmd) - 1 + Len(last.extra_args)
                /\ \A i \in 1..(Len(cmd) - 1) : last.spawned[1].args[i] = cmd[i + 1]
                /\ \A i \in 1..Len(last.extra_args) :
                      last.spawned[1].args[Len(cmd) - 1 + i] = last.extra_args[i]
                /\ last.result \in {"Ok", "SpawnError", "WaitError"}
                /\ last.result # "SpawnError" <=> last.spawned[1].started
                /\ last.result = "Ok" <=> last.spawned[1].exited

C8_Witness ==
    /\ last.op = "run"
    /\ last.result = "Ok"
    /\ Len(last.extra_args) = 2
    /\ Cardinality(Matches(Stored, last.name)) = 2
    /\ Len(Stored[1].run_command) = 3
    /\ Stored[1].project_name = last.name
    /\ Stored[2].run_command # Stored[1].run_command
    /\ Len(last.spawned) = 1
    /\ Len(last.spawned[1].args) = 4
    /\ last.spawned[1].exited

\* the token has a directory component: a separator with something before
\* or behind it
HasDirComponent(token) ==
    \E i \in 1..Len(token) : token[i] = "/" /\ Len(token) > 1

\* C9: open_project_folder on a match with a non-empty command, on a
\* platform that has an opener, resolves its target from the first token
\* only: a directory is the target itself, otherwise the target is the
\* token's parent directory, and a token with no directory component (a bare
\* name such as npm) gives NotFound and no opener process; otherwise the
\* opener is requested once with the target as its sole argument.
C9_OpenFolderTarget ==
    (last.op = "open" /\ open_command(last.os).some) =>
        \A stored \in {Stored} :
            Matches(stored, last.name) # {} =>
            \A cmd \in {stored[Least(Matches(stored, last.name))].run_command} :
                cmd # <<>> =>
                IF is_dir(cmd[1], last.cwd)
                THEN /\ Len(last.spawned) = 1
                     /\ last.spawned[1].program = open_command(last.os).val
                     /\ last.spawned[1].args = <<cmd[1]>>
                ELSE IF HasDirComponent(cmd[1])
                THEN /\ Len(last.spawned) = 1
                     /\ last.spawned[1].program = open_command(last.os).val
                     /\ last.spawned[1].args = <<parent(cmd[1]).val>>
                ELSE /\ last.result = "NotFound"
                     /\ last.spawned = <<>>

C11_NotFoundIsError ==
    (last.op \in {"update", "run", "open"} /\ Matches(last.shortcuts, last.name) = {}) =>
        last.result # "Ok"

\* C12: run_shortcut on a match whose stored command is empty returns an
\* error to the caller and requests no process.
C12_RunEmptyCommandIsError ==
    last.op = "run" =>
        \A stored \in {Stored} :
            (/\ Matches(stored, last.name) # {}
             /\ stored[Least(Matches(stored, last.name))].run_command = <<>>) =>
                /\ last.result # "Ok"
                /\ last.spawned = <<>>

\* C15: starting from an absent store, after any sequence of add, update,
\* remove and reset invoked through main, every stored shortcut has a
\* command of at least one token.
C15_NoEmptyCommandStored ==
    \A stored \in {Stored} :
        \A i \in 1..Len(stored) : stored[i].run_command # <<>>

Effect(op, name, command, shortcuts) ==
    CASE op = "add" ->
            Append(shortcuts, [project_name |-> name, run_command |-> command])
      [] op = "remove" ->
            SelectSeq(shortcuts, LAMBDA sc : sc.project_name # name)
      [] op = "update" ->
            [k \in 1..Len(shortcuts) |->
                IF k = Least(Matches(shortcuts, name))
                THEN [shortcuts[k] EXCEPT !.run_command = command]
                ELSE shortcuts[k]]

\* both invocations loaded before either saved; i saved, then j saved
LostUpdateOrder(i, j) ==
    /\ i # j
    /\ Len(log) = 4
    /\ log[1].step = "load" /\ log[2].step = "load"
    /\ log[3] = [step |-> "save", by |-> i]
    /\ log[4] = [step |-> "save", by |-> j]

\* C13: two invocations of add, remove or update are not isolated: when
\* both load before either saves, both return Ok, and the store then holds
\* what the later saver alone makes of the collection both loaded; the
\* change the earlier saver made is not in it.
C13_LaterSaveWins ==
    \A i, j \in Invocations :
        LostUpdateOrder(i, j) =>
            /\ inv[i].result = "Ok"
            /\ inv[j].result = "Ok"
            /\ inv[i].loaded = inv[j].loaded
            /\ \A stored \in {Stored} :
                  stored = Effect(inv[j].op, inv[j].name, inv[j].command, inv[j].loaded)

C13_Witness ==
    /\ LostUpdateOrder(1, 2)
    /\ inv[1].op = "add" /\ inv[1].name = <<"p">>
    /\ inv[2].op = "add" /\ inv[2].name = <<"\"", "\\">>
    /\ inv[1].loaded = <<>>
    /\ inv[1].result = "Ok" /\ inv[2].result = "Ok"
    /\ \A stored \in {Stored} :
          /\ Len(stored) = 1
          /\ Matches(stored, <<"p">>) = {}
          /\ stored # Effect("add", inv[2].name, inv[2].command, inv[1].shortcuts)

====
